---- MODULE Spec2Model ----
(***************************************************************************)
(* The Bambu flow of ufde-next: the stage command builders and the        *)
(* automatic constraint-file generator (parseHLSVerilogPorts,              *)
(* generateBambuConstraintFile, runBambu*FlowCommand).                     *)
(*                                                                         *)
(* One stage builder runs at a time.  Its position is pc; every await of   *)
(* the source is a step boundary, so the project (mutated by the settings  *)
(* callbacks) and the file system (written by the external tools) may      *)
(* change between two steps of one invocation.                             *)
(***************************************************************************)
EXTENDS Integers, Sequences, FiniteSets, TLC

VARIABLES
  project,   \* ProjectInfo: name, file_lists, settings
  fs,        \* the project directory: path -> content, Absent or Unreadable
  catalog,   \* devicePorts.FDP3P7: [input, output], two pin sequences
  pc,        \* position of the invocation in flight, "idle" when none
  loc,       \* its local variables
  io,        \* the stage last invoked and the calls it has made so far
  result     \* what the last finished stage builder returned

vars == <<project, fs, catalog, pc, loc, io, result>>

\* ------------------------------------------------------------------ values

None == "<null>"              \* null / undefined

\* what a path of the file system holds
Absent == [kind |-> "absent"]            \* exists(path) is false
Unreadable == [kind |-> "unreadable"]    \* exists, but readTextFile throws
HdlFile(modules) == [kind |-> "hdl", modules |-> modules]

Range(s) == {s[i] : i \in 1..Len(s)}

Min(a, b) == IF a < b THEN a ELSE b
Max(a, b) == IF a > b THEN a ELSE b

\* template-literal rendering of a bit index, ${i}
IntStr(i) == <<"0", "1", "2", "3", "4", "5", "6", "7", "8", "9">>[i + 1]

\* ------------------------------------------------------------------ bounds

MaxPorts == 2      \* ports of a module drawn for the allocator
MaxModules == 2    \* modules of a hardware-description text drawn for the parser
MaxFiles == 2      \* entries of project.file_lists

\* --------------------------------------------------------- pin allocation

\* the pins a catalog is drawn from, and every duplicate-free, disjoint
\* pair of sequences over them
PinIds == {"P1", "P2", "P3"}

SeqsUpTo(S, n) ==
  {s \in UNION {[1..k -> S] : k \in 0..n} : Cardinality(Range(s)) = Len(s)}
SeqsNoDup(S) == SeqsUpTo(S, Cardinality(S))

Catalogs ==
  {[input |-> c[1], output |-> c[2]] :
     c \in {d \in SeqsNoDup(PinIds) \X SeqsNoDup(PinIds) :
              Range(d[1]) \cap Range(d[2]) = {}}}

\* the cursor state of one allocation: inputIdx, outputIdx, portConstraints,
\* and whether the loop has returned null
AllocStart == [inputIdx |-> 0, outputIdx |-> 0, portConstraints |-> <<>>,
               failed |-> FALSE]

\* assignPin with the increment of inputIdx forgotten
AssignPinNoAdvance(direction, st) ==
  IF direction = "input"
  THEN IF st.inputIdx >= Len(catalog.input)
       THEN [pin |-> None, st |-> st]
       ELSE [pin |-> catalog.input[st.inputIdx + 1], st |-> st]
  ELSE IF st.outputIdx >= Len(catalog.output)
       THEN [pin |-> None, st |-> st]
       ELSE [pin |-> catalog.output[st.outputIdx + 1],
             st |-> [st EXCEPT !.outputIdx = @ + 1]]

\* assignPin: the next pin of the direction's sequence and the advanced
\* cursor, or null with the cursor unchanged
AssignPin(direction, st) ==
  IF direction = "input"
  THEN IF st.inputIdx >= Len(catalog.input)
       THEN [pin |-> None, st |-> st]
       ELSE [pin |-> catalog.input[st.inputIdx + 1],
             st |-> [st EXCEPT !.inputIdx = @ + 1]]
  ELSE IF st.outputIdx >= Len(catalog.output)
       THEN [pin |-> None, st |-> st]
       ELSE [pin |-> catalog.output[st.outputIdx + 1],
             st |-> [st EXCEPT !.outputIdx = @ + 1]]

\* !pin
Falsy(pin) == pin = None \/ pin = ""

\* one port record: <port name="..." position="..."/>
PortRecord(instName, pin) == [name |-> instName, position |-> pin]

\* an exhausted sequence skips the port instance instead of returning null
OnExhaustedSkip(st) == st

\* what the loop does when assignPin gave no pin
OnExhausted(st) == [st EXCEPT !.failed = TRUE]

\* the bus loop leaving with break, not return null, when the pins run out
RECURSIVE ExpandBusBreaks(_, _, _, _)
ExpandBusBreaks(port, i, high, st) ==
  IF i > high THEN st
  ELSE LET r == AssignPin(port.direction, st)
       IN IF Falsy(r.pin) THEN r.st
          ELSE ExpandBusBreaks(port, i + 1, high,
                 [r.st EXCEPT !.portConstraints =
                    Append(@, PortRecord(port.name \o "[" \o IntStr(i) \o "]",
                                         r.pin))])

\* the inner loop over the bits of a bus: for (i = low; i <= high; i++)
RECURSIVE ExpandBus(_, _, _, _)
ExpandBus(port, i, high, st) ==
  IF i > high THEN st
  ELSE LET r == AssignPin(port.direction, st)
       IN IF Falsy(r.pin) THEN OnExhausted(r.st)
          ELSE ExpandBus(port, i + 1, high,
                 [r.st EXCEPT !.portConstraints =
                    Append(@, PortRecord(port.name \o "[" \o IntStr(i) \o "]",
                                         r.pin))])

\* only a scalar clock is skipped
IsClockScalarOnly(port) == port.name = "clock" /\ port.msb = port.lsb

\* port.name === "clock"
IsClock(port) == port.name = "clock"

\* port.msb !== port.lsb
IsBus(port) == port.msb # port.lsb

\* the bus loop run from lsb to msb, without Math.min and Math.max
AllocPortDeclaredOrder(port, st) ==
  IF IsClock(port) THEN st
  ELSE IF IsBus(port)
       THEN ExpandBus(port, port.lsb, port.msb, st)
       ELSE LET r == AssignPin(port.direction, st)
            IN IF Falsy(r.pin) THEN OnExhausted(r.st)
               ELSE [r.st EXCEPT !.portConstraints =
                       Append(@, PortRecord(port.name, r.pin))]

\* the body of the loop over ports, for one port
AllocPort(port, st) ==
  IF IsClock(port) THEN st
  ELSE IF IsBus(port)
       THEN ExpandBus(port, Min(port.msb, port.lsb), Max(port.msb, port.lsb), st)
       ELSE LET r == AssignPin(port.direction, st)
            IN IF Falsy(r.pin) THEN OnExhausted(r.st)
               ELSE [r.st EXCEPT !.portConstraints =
                       Append(@, PortRecord(port.name, r.pin))]

\* for (const port of ports): stops at the first return null
RECURSIVE AllocLoop(_, _, _)
AllocLoop(ports, k, st) ==
  IF k > Len(ports) \/ st.failed THEN st
  ELSE AllocLoop(ports, k + 1, AllocPort(ports[k], st))

\* the xmlContent template: the design wrapper around the port records
XmlContent(moduleName, portConstraints) ==
  [kind |-> "xml", design |-> moduleName, ports |-> portConstraints]

\* ------------------------------------------------------ port extraction

\* A hardware-description text is the sequence of its module blocks
\*   module <name> ( ... ); <body> endmodule
\* and a body the sequence of its statements, each
\*   <kw> [msb:lsb]? <name>, <name>, ... ;
\* with range = <<msb, lsb>>.
Line(kw, range, names) == [kw |-> kw, range |-> range, names |-> names]
Module(name, body) == [name |-> name, body |-> body]

\* the characters of the identifiers in use (TLC cannot index a string)
Chars(s) ==
  CASE s = "_Z3fooi" -> <<"_", "Z", "3", "f", "o", "o", "i">>
    [] s = "_Z3FOOv" -> <<"_", "Z", "3", "F", "O", "O", "v">>
    [] s = "_Z3barv" -> <<"_", "Z", "3", "b", "a", "r", "v">>
    [] s = "foo" -> <<"f", "o", "o">>
    [] s = "Foo" -> <<"F", "o", "o">>
    [] s = "bar" -> <<"b", "a", "r">>
    [] s = "main" -> <<"m", "a", "i", "n">>
    [] s = "" -> <<>>

UpperCase == <<"A", "B", "C", "D", "E", "F", "G", "H", "I", "J", "K", "L", "M",
               "N", "O", "P", "Q", "R", "S", "T", "U", "V", "W", "X", "Y", "Z">>
LowerCase == <<"a", "b", "c", "d", "e", "f", "g", "h", "i", "j", "k", "l", "m",
               "n", "o", "p", "q", "r", "s", "t", "u", "v", "w", "x", "y", "z">>
Digits == {"0", "1", "2", "3", "4", "5", "6", "7", "8", "9"}
WordChars == Range(UpperCase) \cup Range(LowerCase) \cup Digits \cup {"_"}

\* String.prototype.toLowerCase
ToLowerCase(cs) ==
  [i \in 1..Len(cs) |->
     IF \E k \in 1..26 : UpperCase[k] = cs[i]
     THEN LowerCase[CHOOSE k \in 1..26 : UpperCase[k] = cs[i]]
     ELSE cs[i]]

\* String.prototype.includes
Includes(hay, needle) ==
  \E i \in 0..(Len(hay) - Len(needle)) : SubSeq(hay, i + 1, i + Len(needle)) = needle

\* the name group of moduleRegex: _Z\d+\w+
MatchesNameRegex(cs) ==
  /\ Len(cs) >= 4
  /\ cs[1] = "_" /\ cs[2] = "Z" /\ cs[3] \in Digits
  /\ \A i \in 4..Len(cs) : cs[i] \in WordChars

\* the comparison without the two toLowerCase calls
NameMatchesCaseSensitive(moduleName, topFunctionName) ==
  Includes(Chars(moduleName), Chars(topFunctionName))

\* moduleName.toLowerCase().includes(topFunctionName.toLowerCase())
NameMatches(moduleName, topFunctionName) ==
  Includes(ToLowerCase(Chars(moduleName)), ToLowerCase(Chars(topFunctionName)))

\* portRegex: (input|output)\s+(?:\[(\d+):(\d+)\]\s+)?(\w+)\s*;
MatchesPortRegex(line) ==
  line.kw \in {"input", "output"} /\ Len(line.names) = 1

\* the port pushed for one match of portRegex
PortOf(line) ==
  [name |-> line.names[1], direction |-> line.kw,
   msb |-> IF line.range = <<>> THEN 0 ELSE line.range[1],
   lsb |-> IF line.range = <<>> THEN 0 ELSE line.range[2]]

\* the inner while loop: every match of portRegex in the body, in order
RECURSIVE ParsePorts(_, _)
ParsePorts(body, k) ==
  IF k > Len(body) THEN <<>>
  ELSE IF MatchesPortRegex(body[k])
       THEN <<PortOf(body[k])>> \o ParsePorts(body, k + 1)
       ELSE ParsePorts(body, k + 1)

NotFound == [found |-> FALSE, moduleName |-> "", ports |-> <<>>]

\* the outer while loop over the matches of moduleRegex
RECURSIVE ScanModules(_, _, _)
ScanModules(modules, k, topFunctionName) ==
  IF k > Len(modules) THEN NotFound
  ELSE IF /\ MatchesNameRegex(Chars(modules[k].name))
          /\ NameMatches(modules[k].name, topFunctionName)
       THEN [found |-> TRUE, moduleName |-> modules[k].name,
             ports |-> ParsePorts(modules[k].body, 1)]
       ELSE ScanModules(modules, k + 1, topFunctionName)

\* parseHLSVerilogPorts once readTextFile has delivered the content
ParseHLSVerilogPorts(content, topFunctionName) ==
  ScanModules(content, 1, topFunctionName)

\* ------------------------------------------------------------- project

File(type, name, path) == [type |-> type, name |-> name, path |-> path]

\* the stem and the extension (after the last dot) of the file names in use
Stem(name) ==
  CASE name = "top.cpp" -> "top"
    [] name = "aux.C" -> "aux"
    [] name = "pins.xml" -> "pins"
    [] name = "alt.xml" -> "alt"
ExtChars(name) ==
  CASE name = "top.cpp" -> <<"c", "p", "p">>
    [] name = "aux.C" -> <<"C">>
    [] name = "pins.xml" -> <<"x", "m", "l">>
    [] name = "alt.xml" -> <<"x", "m", "l">>

\* cppFile.name.replace(/\.(cpp|cc|cxx|c)$/i, "")
BaseName(name) ==
  IF ToLowerCase(ExtChars(name)) \in
       {<<"c", "p", "p">>, <<"c", "c">>, <<"c", "x", "x">>, <<"c">>}
  THEN Stem(name)
  ELSE name

\* only C++ files count as sources
IsSourceCppOnly(file) == file.type = "cpp"

\* file.type === "cpp" || file.type === "c"
IsSource(file) == file.type = "cpp" \/ file.type = "c"
IsConstraint(file) == file.type = "constraint"

\* file_lists.find(isSource): the first source file, None when there is none
FindSource(file_lists) ==
  LET found == SelectSeq(file_lists, IsSource)
  IN IF found = <<>> THEN <<>> ELSE <<found[1]>>

\* the last constraint file of the project instead of the first
LastConstraintPath(file_lists) ==
  LET found == SelectSeq(file_lists, IsConstraint)
  IN IF found = <<>> THEN None ELSE found[Len(found)].path

\* file_lists.filter(isConstraint)[0]?.path
FirstConstraintPath(file_lists) ==
  LET found == SelectSeq(file_lists, IsConstraint)
  IN IF found = <<>> THEN None ELSE found[1].path

\* getDirOfFile(project.path), with its trailing separator
ProjectDir == "/work/"

\* projectDir + project.name + "_bambu_cons.xml"
ConstraintFilePath(p) == ProjectDir \o p.name \o "_bambu_cons.xml"
\* projectDir + baseName + ".v"
VerilogPath(baseName) == ProjectDir \o baseName \o ".v"

\* the default top function, whatever the project's setting
TopFunctionDefaultOnly(p) == "main"

\* project.settings.bambu?.topFunction || "main"
TopFunction(p) ==
  IF p.settings.topFunction = None \/ p.settings.topFunction = ""
  THEN "main" ELSE p.settings.topFunction

\* project.settings.bambu?.clockPeriod || 10, rendered by string concatenation;
\* an unset period is 0 here, which is falsy too
ClockPeriod(p) ==
  IF p.settings.clockPeriod = 0 THEN "10"
  ELSE CASE p.settings.clockPeriod = 5 -> "5"
         [] p.settings.clockPeriod = 20 -> "20"

\* ------------------------------------------------------ stage commands

Undefined == [kind |-> "undefined"]
Pending == [kind |-> "pending"]
\* Command.sidecar(program, args, { cwd })
Sidecar(program, args, cwd) ==
  [kind |-> "command", program |-> program, args |-> args, cwd |-> cwd]

\* resolveResource(...)
Resource(path) == "$RES/" \o path

\* runBambuHLSFlowCommand
HLSCommand(p) ==
  LET cppFiles == [i \in 1..Len(SelectSeq(p.file_lists, IsSource)) |->
                     SelectSeq(p.file_lists, IsSource)[i].path]
  IN IF cppFiles = <<>> THEN Undefined
     ELSE Sidecar("binaries/bambu",
                  <<"--top-fname=" \o TopFunction(p),
                    "--clock-period=" \o ClockPeriod(p),
                    "--memory-allocation-policy=NO_BRAM">> \o cppFiles,
                  ProjectDir)

\* the test written for the other mode: an unset mode then gives -b
GetPlaceModeTestsTiming(p) ==
  IF p.settings.placeMode = "Timing Driven" THEN "-t" ELSE "-b"

\* getPlaceMode
GetPlaceMode(p) == IF p.settings.placeMode = "Bounding Box" THEN "-b" ELSE "-t"

\* getRouteMode
GetRouteMode(p) ==
  IF p.settings.routeMode = "Direct Search" THEN "-d"
  ELSE IF p.settings.routeMode = "Breath First" THEN "-b"
  ELSE "-t"

\* the Command.sidecar call of runBambuPlaceFlowCommand
PlaceCommand(p, placecstFilePath) ==
  Sidecar("binaries/fde-cli/place",
          <<"-a", Resource("resource/hw_lib/fdp3p7_arch.xml"),
            "-d", Resource("resource/hw_lib/fdp3p7_dly.xml"),
            "-i", p.name \o "_bambu_" \o "pack.xml",
            "-o", p.name \o "_bambu_" \o "place.xml",
            "-c", placecstFilePath,
            GetPlaceMode(p),
            "-e">>,
          ProjectDir)

\* the Command.sidecar call of runBambuRouteFlowCommand
RouteCommand(p, routeMode, routecstFilePath) ==
  Sidecar("binaries/fde-cli/route",
          <<"-a", Resource("resource/hw_lib/fdp3p7_arch.xml"),
            "-n", p.name \o "_bambu_" \o "place.xml",
            "-o", p.name \o "_bambu_" \o "route.xml",
            routeMode,
            "-c", routecstFilePath,
            "-e">>,
          ProjectDir)

\* runBambuSynthFlowCommand: the yosys call on the Verilog named after the
\* first source file; undefined when the project has no source file
SynthCommand(p) ==
  LET outputFileName == p.name \o "_bambu_" \o "syn.edf"
      tclScript == Resource("resource/yosys/yosys_fde.tcl")
      simlibFile == Resource("resource/yosys/fdesimlib.v")
      techmapFile == Resource("resource/yosys/techmap.v")
      cellsMapFile == Resource("resource/yosys/cells_map.v")
      cppFile == FindSource(p.file_lists)
  IN IF cppFile = <<>> THEN Undefined
     ELSE LET baseName == BaseName(cppFile[1].name)
              inputFile == baseName \o ".v"
              tclLine == "tcl " \o tclScript \o " -l " \o simlibFile
                           \o " -m " \o techmapFile \o " -c " \o cellsMapFile
                           \o " -o " \o outputFileName
          IN Sidecar("binaries/yosys",
                     <<"-p", tclLine, ProjectDir \o inputFile>>,
                     ProjectDir)

\* runBambuMapFlowCommand
MapCommand(p) ==
  Sidecar("binaries/fde-cli/map",
          <<"-y",
            "-i", p.name \o "_bambu_" \o "syn.edf",
            "-o", p.name \o "_bambu_" \o "map.xml",
            "-c", Resource("resource/hw_lib/dc_cell.xml"),
            "-e">>,
          ProjectDir)

\* packing run on the synthesis netlist, the mapping stage's output ignored
PackCommandSkipsMap(p) ==
  Sidecar("binaries/fde-cli/pack",
          <<"-c", "fdp3",
            "-n", p.name \o "_bambu_" \o "syn.edf",
            "-l", Resource("resource/hw_lib/fdp3_cell.xml"),
            "-r", Resource("resource/hw_lib/fdp3_dcplib.xml"),
            "-o", p.name \o "_bambu_" \o "pack.xml",
            "-g", Resource("resource/hw_lib/fdp3_config.xml"),
            "-e">>,
          ProjectDir)

\* runBambuPackFlowCommand
PackCommand(p) ==
  Sidecar("binaries/fde-cli/pack",
          <<"-c", "fdp3",
            "-n", p.name \o "_bambu_" \o "map.xml",
            "-l", Resource("resource/hw_lib/fdp3_cell.xml"),
            "-r", Resource("resource/hw_lib/fdp3_dcplib.xml"),
            "-o", p.name \o "_bambu_" \o "pack.xml",
            "-g", Resource("resource/hw_lib/fdp3_config.xml"),
            "-e">>,
          ProjectDir)

\* runBambuGenBitFlowCommand
GenBitCommand(p) ==
  Sidecar("binaries/fde-cli/bitgen",
          <<"-a", Resource("resource/hw_lib/fdp3p7_arch.xml"),
            "-c", Resource("resource/hw_lib/fdp3p7_cil.xml"),
            "-n", p.name \o "_bambu_" \o "route.xml",
            "-b", p.name \o "_bambu_" \o "bit.bit",
            "-e">>,
          ProjectDir)

\* ------------------------------------------------- the invocation's steps

LocIdle ==
  [op |-> "none", constraintFilePath |-> None, verilogPath |-> None,
   topFunction |-> None, content |-> <<>>, parseResult |-> NotFound,
   inputIdx |-> 0, outputIdx |-> 0, portConstraints |-> <<>>,
   xmlContent |-> XmlContent("", <<>>), genResult |-> None, routeMode |-> None]

\* exists(path)
Exists(path) == fs[path].kind # "absent"

\* runBambuHLSFlowCommand: every read of the project precedes its one await
RunBambuHLSFlowCommand ==
  /\ pc = "idle"
  /\ result' = HLSCommand(project)
  /\ io' = <<"run:hls">>
  /\ UNCHANGED <<project, fs, catalog, pc, loc>>

\* runBambuPlaceFlowCommand up to its await of generateBambuConstraintFile,
\* or to its end when the project lists a constraint file
RunBambuPlaceFlowCommand ==
  /\ pc = "idle"
  /\ io' = <<"run:place">>
  /\ LET placecstFilePath == FirstConstraintPath(project.file_lists)
     IN IF ~Falsy(placecstFilePath)
        THEN /\ result' = PlaceCommand(project, placecstFilePath)
             /\ UNCHANGED <<pc, loc>>
        ELSE /\ result' = Pending
             /\ pc' = "gen_exists"
             /\ loc' = [LocIdle EXCEPT !.op = "place"]
  /\ UNCHANGED <<project, fs, catalog>>

\* generateBambuConstraintFile returns v to the awaiting placement stage
GenReturns(v) ==
  /\ pc' = "place_resume"
  /\ loc' = [loc EXCEPT !.genResult = v]

\* generateBambuConstraintFile without the early return for an existing file
GenExistsRegenerates ==
  /\ pc = "gen_exists"
  /\ io' = Append(io, "exists:cons")
  /\ LET constraintFilePath == ConstraintFilePath(project)
         cppFile == FindSource(project.file_lists)
     IN IF cppFile = <<>>
        THEN GenReturns(None)
        ELSE /\ pc' = "gen_exists_hdl"
             /\ loc' = [loc EXCEPT
                          !.constraintFilePath = constraintFilePath,
                          !.verilogPath = VerilogPath(BaseName(cppFile[1].name))]
  /\ UNCHANGED <<project, fs, catalog, result>>

\* generateBambuConstraintFile: exists(constraintFilePath), then the search
\* for the source file
GenExists ==
  /\ pc = "gen_exists"
  /\ io' = Append(io, "exists:cons")
  /\ LET constraintFilePath == ConstraintFilePath(project)
         cppFile == FindSource(project.file_lists)
     IN IF Exists(constraintFilePath)
        THEN GenReturns(constraintFilePath)
        ELSE IF cppFile = <<>>
        THEN GenReturns(None)
        ELSE /\ pc' = "gen_exists_hdl"
             /\ loc' = [loc EXCEPT
                          !.constraintFilePath = constraintFilePath,
                          !.verilogPath = VerilogPath(BaseName(cppFile[1].name))]
  /\ UNCHANGED <<project, fs, catalog, result>>

\* exists(verilogPath), then the call of parseHLSVerilogPorts
GenExistsHdl ==
  /\ pc = "gen_exists_hdl"
  /\ io' = Append(io, "exists:hdl")
  /\ IF ~Exists(loc.verilogPath)
     THEN GenReturns(None)
     ELSE /\ pc' = "gen_read"
          /\ loc' = [loc EXCEPT !.topFunction = TopFunction(project)]
  /\ UNCHANGED <<project, fs, catalog, result>>

\* parseHLSVerilogPorts: readTextFile(verilogPath); a throw is caught and
\* gives null
GenRead ==
  /\ pc = "gen_read"
  /\ io' = Append(io, "read:hdl")
  /\ IF fs[loc.verilogPath].kind # "hdl"
     THEN GenReturns(None)
     ELSE /\ pc' = "gen_parse"
          /\ loc' = [loc EXCEPT !.content = fs[loc.verilogPath].modules]
  /\ UNCHANGED <<project, fs, catalog, result>>

\* the parse result used without the test for null
GenParseUnchecked ==
  /\ pc = "gen_parse"
  /\ io' = Append(io, "parse")
  /\ pc' = "gen_alloc"
  /\ loc' = [loc EXCEPT !.parseResult =
               ParseHLSVerilogPorts(loc.content, loc.topFunction)]
  /\ UNCHANGED <<project, fs, catalog, result>>

\* parseHLSVerilogPorts on the content read, and the test of its result
GenParse ==
  /\ pc = "gen_parse"
  /\ io' = Append(io, "parse")
  /\ LET parseResult == ParseHLSVerilogPorts(loc.content, loc.topFunction)
     IN IF ~parseResult.found
        THEN GenReturns(None)
        ELSE /\ pc' = "gen_alloc"
             /\ loc' = [loc EXCEPT !.parseResult = parseResult]
  /\ UNCHANGED <<project, fs, catalog, result>>

\* the allocation loop and the xmlContent template
GenAlloc ==
  /\ pc = "gen_alloc"
  /\ io' = Append(io, "alloc")
  /\ LET st == AllocLoop(loc.parseResult.ports, 1, AllocStart)
         after == [loc EXCEPT !.inputIdx = st.inputIdx,
                              !.outputIdx = st.outputIdx,
                              !.portConstraints = st.portConstraints]
     IN IF st.failed
        THEN /\ pc' = "place_resume"
             /\ loc' = [after EXCEPT !.genResult = None]
        ELSE /\ pc' = "gen_write"
             /\ loc' = [after EXCEPT !.xmlContent =
                          XmlContent(loc.parseResult.moduleName, st.portConstraints)]
  /\ UNCHANGED <<project, fs, catalog, result>>

\* writeTextFile(constraintFilePath, xmlContent)
GenWrite ==
  /\ pc = "gen_write"
  /\ io' = Append(io, "write:cons")
  /\ fs' = [fs EXCEPT ![loc.constraintFilePath] = loc.xmlContent]
  /\ pc' = "gen_written"
  /\ UNCHANGED <<project, catalog, loc, result>>

\* return constraintFilePath
GenReturn ==
  /\ pc = "gen_written"
  /\ GenReturns(loc.constraintFilePath)
  /\ UNCHANGED <<project, fs, catalog, io, result>>

\* runBambuPlaceFlowCommand after generateBambuConstraintFile has returned
PlaceResume ==
  /\ pc = "place_resume"
  /\ result' = IF Falsy(loc.genResult) THEN Undefined
               ELSE PlaceCommand(project, loc.genResult)
  /\ pc' = "idle"
  /\ loc' = LocIdle
  /\ UNCHANGED <<project, fs, catalog, io>>

\* runBambuRouteFlowCommand up to its exists(autoConstraintPath), or to its
\* end when the project lists a constraint file
RunBambuRouteFlowCommand ==
  /\ pc = "idle"
  /\ io' = <<"run:route">>
  /\ LET routeMode == GetRouteMode(project)
         routecstFilePath == FirstConstraintPath(project.file_lists)
     IN IF ~Falsy(routecstFilePath)
        THEN /\ result' = RouteCommand(project, routeMode, routecstFilePath)
             /\ UNCHANGED <<pc, loc>>
        ELSE /\ result' = Pending
             /\ pc' = "route_exists"
             /\ loc' = [LocIdle EXCEPT !.op = "route", !.routeMode = routeMode]
  /\ UNCHANGED <<project, fs, catalog>>

\* the generated path passed on without the test that the file exists
RouteExistsAssumesFile ==
  /\ pc = "route_exists"
  /\ io' = Append(io, "exists:cons")
  /\ result' = RouteCommand(project, loc.routeMode,
                            ProjectDir \o project.name \o "_bambu_cons.xml")
  /\ pc' = "idle"
  /\ loc' = LocIdle
  /\ UNCHANGED <<project, fs, catalog>>

\* exists(autoConstraintPath) and the rest of runBambuRouteFlowCommand
RouteExists ==
  /\ pc = "route_exists"
  /\ io' = Append(io, "exists:cons")
  /\ LET autoConstraintPath == ProjectDir \o project.name \o "_bambu_cons.xml"
     IN result' = IF Exists(autoConstraintPath)
                  THEN RouteCommand(project, loc.routeMode, autoConstraintPath)
                  ELSE Undefined
  /\ pc' = "idle"
  /\ loc' = LocIdle
  /\ UNCHANGED <<project, fs, catalog>>

\* runBambuSynthFlowCommand: the awaits resolve resources and the directory,
\* which no other step changes
RunBambuSynthFlowCommand ==
  /\ pc = "idle"
  /\ result' = SynthCommand(project)
  /\ io' = <<"run:synth">>
  /\ UNCHANGED <<project, fs, catalog, pc, loc>>

\* runBambuMapFlowCommand
RunBambuMapFlowCommand ==
  /\ pc = "idle"
  /\ result' = MapCommand(project)
  /\ io' = <<"run:map">>
  /\ UNCHANGED <<project, fs, catalog, pc, loc>>

\* runBambuPackFlowCommand
RunBambuPackFlowCommand ==
  /\ pc = "idle"
  /\ result' = PackCommand(project)
  /\ io' = <<"run:pack">>
  /\ UNCHANGED <<project, fs, catalog, pc, loc>>

\* runBambuGenBitFlowCommand
RunBambuGenBitFlowCommand ==
  /\ pc = "idle"
  /\ result' = GenBitCommand(project)
  /\ io' = <<"run:genbit">>
  /\ UNCHANGED <<project, fs, catalog, pc, loc>>

\* ------------------------------------------------------- the environment

CppFile == File("cpp", "top.cpp", "src/top.cpp")
CFile == File("c", "aux.C", "src/aux.C")
PinsFile == File("constraint", "pins.xml", "cons/pins.xml")
AltFile == File("constraint", "alt.xml", "cons/alt.xml")

Settings(topFunction, clockPeriod, placeMode, routeMode) ==
  [topFunction |-> topFunction, clockPeriod |-> clockPeriod,
   placeMode |-> placeMode, routeMode |-> routeMode]

ProjectName == "demo"
ConsPath == ProjectDir \o ProjectName \o "_bambu_cons.xml"
HdlPaths == {VerilogPath("top"), VerilogPath("aux")}
AllAbsent == [path \in HdlPaths \cup {ConsPath} |-> Absent]

\* the catalog and the generated texts the system is run with
SysCatalog == [input |-> <<"P1", "P2">>, output |-> <<"P3">>]
HdlFits ==
  <<Module("_Z3fooi", <<Line("input", <<>>, <<"clock">>),
                        Line("input", <<1, 0>>, <<"a">>),
                        Line("wire", <<>>, <<"w">>),
                        Line("output", <<>>, <<"r">>)>>)>>
HdlTooWide ==
  <<Module("_Z3fooi", <<Line("input", <<>>, <<"a">>),
                        Line("output", <<0, 1>>, <<"q">>)>>)>>
HdlBar ==
  <<Module("foo", <<Line("input", <<>>, <<"x">>)>>),
    Module("_Z3barv", <<Line("output", <<>>, <<"r">>)>>)>>
SysHdl == {HdlFile(HdlFits), HdlFile(HdlTooWide), HdlFile(HdlBar)}
SysFiles == {CppFile, CFile, PinsFile}
SysTopFunctions == {None, "foo", "bar"}

\* the user adds a file to the project
EnvAddFile ==
  /\ Len(project.file_lists) < MaxFiles
  /\ \E f \in SysFiles \ Range(project.file_lists) :
       project' = [project EXCEPT !.file_lists = Append(@, f)]
  /\ UNCHANGED <<fs, catalog, pc, loc, io, result>>

\* the user removes a file from the project
EnvRemoveFile ==
  /\ \E i \in 1..Len(project.file_lists) :
       project' = [project EXCEPT !.file_lists =
                     SubSeq(@, 1, i - 1) \o SubSeq(@, i + 1, Len(@))]
  /\ UNCHANGED <<fs, catalog, pc, loc, io, result>>

\* the onChange callback of the top-function input
EnvSetTopFunction ==
  /\ \E t \in SysTopFunctions \ {project.settings.topFunction} :
       project' = [project EXCEPT !.settings.topFunction = t]
  /\ UNCHANGED <<fs, catalog, pc, loc, io, result>>

\* the HLS tool (or the user) writes, replaces or removes a generated file
EnvWriteHdl ==
  /\ \E path \in HdlPaths, c \in SysHdl \cup {Absent, Unreadable} :
       /\ c # fs[path]
       /\ fs' = [fs EXCEPT ![path] = c]
  /\ UNCHANGED <<project, catalog, pc, loc, io, result>>

\* the user removes the generated constraint file
EnvDeleteConstraint ==
  /\ Exists(ConsPath)
  /\ fs' = [fs EXCEPT ![ConsPath] = Absent]
  /\ UNCHANGED <<project, catalog, pc, loc, io, result>>

\* ---------------------------------------------------- the specifications

\* the system: a new project in an empty directory, the stage builders and
\* the environment
Init ==
  /\ project = [name |-> ProjectName, file_lists |-> <<>>,
                settings |-> Settings(None, 0, "Timing Driven", "Timing Driven")]
  /\ fs = AllAbsent
  /\ catalog = SysCatalog
  /\ pc = "idle"
  /\ loc = LocIdle
  /\ io = <<>>
  /\ result = Pending

Generate ==
  \/ GenExists
  \/ GenExistsHdl
  \/ GenRead
  \/ GenParse
  \/ GenAlloc
  \/ GenWrite
  \/ GenReturn

Next ==
  \/ RunBambuHLSFlowCommand
  \/ RunBambuSynthFlowCommand
  \/ RunBambuMapFlowCommand
  \/ RunBambuPackFlowCommand
  \/ RunBambuPlaceFlowCommand
  \/ Generate
  \/ PlaceResume
  \/ RunBambuRouteFlowCommand
  \/ RouteExists
  \/ RunBambuGenBitFlowCommand
  \/ EnvAddFile
  \/ EnvRemoveFile
  \/ EnvSetTopFunction
  \/ EnvWriteHdl
  \/ EnvDeleteConstraint

Spec == Init /\ [][Next]_vars

\* the allocator alone: generateBambuConstraintFile from its allocation loop
\* on, for every port list and every catalog
PortRanges == {<<0, 0>>, <<1, 1>>, <<1, 0>>, <<0, 1>>}
PortUniverse ==
  {[name |-> n, direction |-> d, msb |-> r[1], lsb |-> r[2]] :
     n \in {"a", "clock"}, d \in {"input", "output"}, r \in PortRanges}
PortLists == UNION {[1..n -> PortUniverse] : n \in 0..MaxPorts}

InitAlloc ==
  /\ project = [name |-> ProjectName, file_lists |-> <<CppFile>>,
                settings |-> Settings("foo", 0, "Timing Driven", "Timing Driven")]
  /\ fs = AllAbsent
  /\ catalog \in Catalogs
  /\ pc = "gen_alloc"
  /\ \E ports \in PortLists :
       loc = [LocIdle EXCEPT
                !.op = "place",
                !.constraintFilePath = ConsPath,
                !.verilogPath = VerilogPath("top"),
                !.topFunction = "foo",
                !.parseResult = [found |-> TRUE, moduleName |-> "_Z3fooi",
                                 ports |-> ports]]
  /\ io = <<"run:place", "exists:cons", "exists:hdl", "read:hdl", "parse">>
  /\ result = Pending

NextAlloc == GenAlloc \/ GenWrite \/ GenReturn \/ PlaceResume

SpecAlloc == InitAlloc /\ [][NextAlloc]_vars

\* the port extractor alone: parseHLSVerilogPorts once the text is read, for
\* every text and every top function
ModuleBodies ==
  {<<>>,
   <<Line("input", <<>>, <<"clock">>), Line("output", <<1, 0>>, <<"r">>)>>,
   <<Line("wire", <<>>, <<"w">>), Line("input", <<>>, <<"a">>),
     Line("input", <<>>, <<"b", "c">>)>>}
ModuleNames == {"_Z3fooi", "_Z3FOOv", "_Z3barv", "foo"}
HdlTexts ==
  UNION {[1..n -> {Module(nm, b) : nm \in ModuleNames, b \in ModuleBodies}] :
           n \in 0..MaxModules}
ParseTargets == {"foo", "Foo", "bar", "main"}

InitParse ==
  /\ project = [name |-> ProjectName, file_lists |-> <<CppFile>>,
                settings |-> Settings("foo", 0, "Timing Driven", "Timing Driven")]
  /\ fs = AllAbsent
  /\ catalog = SysCatalog
  /\ pc = "gen_parse"
  /\ \E text \in HdlTexts, t \in ParseTargets :
       loc = [LocIdle EXCEPT
                !.op = "place",
                !.constraintFilePath = ConsPath,
                !.verilogPath = VerilogPath("top"),
                !.topFunction = t,
                !.content = text]
  /\ io = <<"run:place", "exists:cons", "exists:hdl", "read:hdl">>
  /\ result = Pending

NextParse == GenParse

SpecParse == InitParse /\ [][NextParse]_vars

\* the stage builders alone, on every project and directory content
CmdFiles == {CppFile, CFile, PinsFile, AltFile}
CmdFileLists == SeqsUpTo(CmdFiles, MaxFiles)
CmdSettings ==
  {Settings(t, c, pm, rm) :
     t \in {None, "foo"}, c \in {0, 20},
     pm \in {None, "Bounding Box", "Timing Driven", "Breath First"},
     rm \in {None, "Direct Search", "Breath First", "Timing Driven",
             "Bounding Box"}}
\* a constraint file left by an earlier generation
StaleXml == XmlContent("_Z3oldv", <<PortRecord("x", "P1")>>)

InitCmd ==
  /\ \E fl \in CmdFileLists, st \in CmdSettings :
       project = [name |-> ProjectName, file_lists |-> fl, settings |-> st]
  /\ \E v \in {Absent, HdlFile(HdlFits), HdlFile(HdlTooWide)},
        c \in {Absent, StaleXml} :
       fs = [AllAbsent EXCEPT ![VerilogPath("top")] = v, ![ConsPath] = c]
  /\ catalog = SysCatalog
  /\ pc = "idle"
  /\ loc = LocIdle
  /\ io = <<>>
  /\ result = Pending

NextCmd ==
  \/ RunBambuHLSFlowCommand
  \/ RunBambuSynthFlowCommand
  \/ RunBambuMapFlowCommand
  \/ RunBambuPackFlowCommand
  \/ RunBambuPlaceFlowCommand
  \/ Generate
  \/ PlaceResume
  \/ RunBambuRouteFlowCommand
  \/ RouteExists
  \/ RunBambuGenBitFlowCommand

SpecCmd == InitCmd /\ [][NextCmd]_vars

\* the seven stage builders of bambuFlows on projects of either name, the
\* directory holding what an earlier run may have left
FlowNames == {"demo", "chip"}
FlowSettings ==
  {Settings(t, 0, pm, rm) :
     t \in {None, "foo"}, pm \in {None, "Bounding Box"},
     rm \in {None, "Direct Search"}}

InitFlow ==
  /\ \E n \in FlowNames, fl \in CmdFileLists, st \in FlowSettings :
       project = [name |-> n, file_lists |-> fl, settings |-> st]
  /\ \E v \in {Absent, HdlFile(HdlFits)}, c \in {Absent, StaleXml} :
       fs = [path \in HdlPaths \cup
                      {ConstraintFilePath([name |-> n]) : n \in FlowNames} |->
               IF path = VerilogPath("top") THEN v
               ELSE IF path = ConstraintFilePath(project) THEN c
               ELSE Absent]
  /\ catalog = SysCatalog
  /\ pc = "idle"
  /\ loc = LocIdle
  /\ io = <<>>
  /\ result = Pending

NextFlow ==
  \/ RunBambuHLSFlowCommand
  \/ RunBambuSynthFlowCommand
  \/ RunBambuMapFlowCommand
  \/ RunBambuPackFlowCommand
  \/ RunBambuPlaceFlowCommand
  \/ Generate
  \/ PlaceResume
  \/ RunBambuRouteFlowCommand
  \/ RouteExists
  \/ RunBambuGenBitFlowCommand

SpecFlow == InitFlow /\ [][NextFlow]_vars

\* placement invoked again and again on one project, the user and the HLS
\* tool acting between the invocations: the caller corrects, then re-invokes
NextRetry ==
  \/ RunBambuPlaceFlowCommand
  \/ Generate
  \/ PlaceResume
  \/ (pc = "idle" /\ EnvAddFile)
  \/ (pc = "idle" /\ EnvRemoveFile)
  \/ (pc = "idle" /\ EnvSetTopFunction)
  \/ (pc = "idle" /\ EnvWriteHdl)
  \/ (pc = "idle" /\ EnvDeleteConstraint)

SpecRetry == Init /\ [][NextRetry]_vars

\* ============================================================== claims

\* The port instances a port list asks pins for, in order: none for a port
\* named clock, the bare name for msb = lsb, and name[i] for i ascending from
\* min(msb, lsb) to max(msb, lsb) otherwise.
InstancesOf(port) ==
  IF port.name = "clock" THEN <<>>
  ELSE IF port.msb = port.lsb
  THEN <<[name |-> port.name, direction |-> port.direction]>>
  ELSE LET lo == IF port.msb < port.lsb THEN port.msb ELSE port.lsb
           hi == IF port.msb < port.lsb THEN port.lsb ELSE port.msb
       IN [i \in 1..(hi - lo + 1) |->
             [name |-> port.name \o "[" \o IntStr(lo + i - 1) \o "]",
              direction |-> port.direction]]

RECURSIVE Instances(_)
Instances(ports) ==
  IF ports = <<>> THEN <<>>
  ELSE InstancesOf(Head(ports)) \o Instances(Tail(ports))

\* how many pins of direction d a port list asks for
Demand(ports, d) ==
  Cardinality({k \in 1..Len(Instances(ports)) : Instances(ports)[k].direction = d})

Oversubscribed(ports) ==
  \E d \in {"input", "output"} : Demand(ports, d) > Len(catalog[d])

\* the ports the invocation in flight has parsed
ParsedPorts == loc.parseResult.ports

\* C1: once generateBambuConstraintFile has written the constraint file, the
\* file holds one record per port instance, the pin of each record is a pin
\* of the catalog sequence of its port's direction, and no pin occurs in two
\* records.
C1_PinsInjective ==
  pc = "gen_written" =>
    LET recs == fs[ConsPath].ports
        inst == Instances(ParsedPorts)
    IN /\ Len(recs) = Len(inst)
       /\ \A k \in 1..Len(recs) :
            recs[k].position \in Range(catalog[inst[k].direction])
       /\ \A j, k \in 1..Len(recs) :
            j # k => recs[j].position # recs[k].position

\* a run that wrote three records or more, for ports of both directions
C1_Witness ==
  /\ pc = "gen_written"
  /\ Len(fs[ConsPath].ports) >= 3
  /\ Demand(ParsedPorts, "input") >= 1
  /\ Demand(ParsedPorts, "output") >= 1

\* C2: when the port instances of one direction outnumber the catalog's pins
\* of that direction, the allocation returns null to the placement stage,
\* whatever pins the other direction has to spare, and no constraint file is
\* created.
C2_ExhaustionFails ==
  (loc.op = "place" /\ pc # "gen_alloc" /\ Oversubscribed(ParsedPorts)) =>
    /\ pc = "place_resume"
    /\ loc.genResult = None
    /\ ~Exists(ConsPath)

\* two input pins and three input port instances, with an output pin to spare
C2_Witness ==
  /\ pc = "place_resume"
  /\ Len(catalog.input) = 2
  /\ Demand(ParsedPorts, "input") = 3
  /\ Len(catalog.output) = 1
  /\ Demand(ParsedPorts, "output") = 0

ClockNames == {"clock"} \cup {"clock[" \o IntStr(i) \o "]" : i \in 0..9}
NotNamedClock(port) == port.name # "clock"

\* C6: a port named clock gives no record, whatever its direction and width,
\* and takes no pin: the records and both pin indices are those of the same
\* port list without its clock ports.
C6_ClockSkipped ==
  (loc.op = "place" /\ pc # "gen_alloc") =>
    LET without == AllocLoop(SelectSeq(ParsedPorts, NotNamedClock), 1, AllocStart)
    IN /\ \A k \in 1..Len(loc.portConstraints) :
            loc.portConstraints[k].name \notin ClockNames
       /\ loc.inputIdx = without.inputIdx
       /\ loc.outputIdx = without.outputIdx
       /\ loc.portConstraints = without.portConstraints
       /\ Exists(ConsPath) =>
            \A k \in 1..Len(fs[ConsPath].ports) :
              fs[ConsPath].ports[k].name \notin ClockNames

\* a file written for a port list with a clock bus before another port
C6_Witness ==
  /\ pc = "gen_written"
  /\ Len(ParsedPorts) = 2
  /\ ParsedPorts[1].name = "clock" /\ ParsedPorts[1].msb # ParsedPorts[1].lsb
  /\ ParsedPorts[2].name # "clock"
  /\ ParsedPorts[2].direction = ParsedPorts[1].direction

\* C7: a successful allocation gives exactly the records of the port
\* instances, in order: |msb-lsb|+1 records name[i], i ascending, for a bus in
\* either declaration order, one record under the bare name for msb = lsb;
\* the k-th instance of a direction takes the k-th pin of that direction's
\* catalog sequence.
C7_BusExpansion ==
  pc \in {"gen_write", "gen_written"} =>
    LET inst == Instances(ParsedPorts)
        recs == loc.xmlContent.ports
    IN /\ Len(recs) = Len(inst)
       /\ \A k \in 1..Len(inst) :
            LET nth == Cardinality({j \in 1..k :
                                     inst[j].direction = inst[k].direction})
            IN /\ recs[k].name = inst[k].name
               /\ nth <= Len(catalog[inst[k].direction])
               /\ recs[k].position = catalog[inst[k].direction][nth]
       /\ pc = "gen_written" => fs[ConsPath].ports = recs

\* a file written for a bus declared [0:1] and a port declared [1:1]
C7_Witness ==
  /\ pc = "gen_written"
  /\ \E k \in 1..Len(ParsedPorts) :
       /\ ParsedPorts[k].name # "clock"
       /\ ParsedPorts[k].msb = 0 /\ ParsedPorts[k].lsb = 1
  /\ \E k \in 1..Len(ParsedPorts) :
       /\ ParsedPorts[k].name # "clock"
       /\ ParsedPorts[k].msb = 1 /\ ParsedPorts[k].lsb = 1

\* two characters that are the same up to letter case
SameLetter(a, b) ==
  a = b \/ \E k \in 1..26 : {a, b} = {UpperCase[k], LowerCase[k]}

\* name contains target as a case-insensitive substring
ContainsIgnoreCase(name, target) ==
  LET h == Chars(name)
      n == Chars(target)
  IN \E i \in 0..(Len(h) - Len(n)) :
       \A j \in 1..Len(n) : SameLetter(h[i + j], n[j])

\* name is _Z, then one digit or more, then one word character or more
HasMangledForm(name) ==
  LET cs == Chars(name)
  IN \E d \in 1..(Len(cs) - 3) :
       /\ cs[1] = "_" /\ cs[2] = "Z"
       /\ \A i \in 3..(2 + d) : cs[i] \in Digits
       /\ \A i \in (3 + d)..Len(cs) : cs[i] \in WordChars

\* the declarations  direction [msb:lsb]? name;  of a body, in textual order
IsPortDeclaration(line) == line.kw \in {"input", "output"} /\ Len(line.names) = 1
DeclaredPorts(body) ==
  LET decls == SelectSeq(body, IsPortDeclaration)
  IN [k \in 1..Len(decls) |->
        [name |-> decls[k].names[1], direction |-> decls[k].kw,
         msb |-> IF decls[k].range = <<>> THEN 0 ELSE decls[k].range[1],
         lsb |-> IF decls[k].range = <<>> THEN 0 ELSE decls[k].range[2]]]

\* the outcome of the extraction when the modules at the indices in
\* candidates are the ones that qualify
ExtractionSelects(candidates) ==
  IF candidates = {}
  THEN pc = "place_resume" /\ loc.genResult = None
  ELSE LET first == CHOOSE k \in candidates : \A j \in candidates : k <= j
       IN /\ pc = "gen_alloc"
          /\ loc.parseResult.moduleName = loc.content[first].name
          /\ loc.parseResult.ports = DeclaredPorts(loc.content[first].body)

\* C8 as stated: the extraction selects the first module whose name contains
\* the target as a case-insensitive substring, whatever the form of the name,
\* returns that module's port declarations in textual order, and finds no
\* module only when no module name contains the target.
C8_AnyNameForm ==
  (loc.op = "place" /\ pc # "gen_parse") =>
    ExtractionSelects({k \in 1..Len(loc.content) :
                         ContainsIgnoreCase(loc.content[k].name, loc.topFunction)})

\* C8 amended: only the modules whose name has the mangled form
\* _Z<digits><word characters> are candidates; the extraction selects the
\* first of them whose name contains the target as a case-insensitive
\* substring, returns that module's port declarations in textual order, and
\* finds no module when none of them contains the target.
C8_MangledNamesOnly ==
  (loc.op = "place" /\ pc # "gen_parse") =>
    ExtractionSelects({k \in 1..Len(loc.content) :
                         /\ HasMangledForm(loc.content[k].name)
                         /\ ContainsIgnoreCase(loc.content[k].name, loc.topFunction)})

\* two modules with different bodies, of which only the second, _Z3FOOv,
\* contains the target foo
C8_Witness ==
  /\ pc = "gen_alloc"
  /\ loc.topFunction = "foo"
  /\ Len(loc.content) = 2
  /\ loc.content[1].name = "_Z3barv"
  /\ loc.content[2].name = "_Z3FOOv"
  /\ loc.content[1].body # loc.content[2].body
  /\ Len(loc.parseResult.ports) >= 1

\* xml is the design wrapper of the parsed module around one record per port
\* instance of that module
CompleteFor(xml, parsed) ==
  /\ xml.kind = "xml"
  /\ xml.design = parsed.moduleName
  /\ Len(xml.ports) = Len(Instances(parsed.ports))
  /\ \A k \in 1..Len(xml.ports) : xml.ports[k].name = Instances(parsed.ports)[k].name

\* C3: the constraint file starts absent, and every step that changes it
\* either removes it or leaves the design wrapper with one port record for
\* every non-clock port instance of the module the invocation selected; no
\* invocation, failing at whatever step, leaves a prefix of the records.
C3_NoPartialFile ==
  [][fs'[ConsPath] # fs[ConsPath] =>
       \/ fs'[ConsPath] = Absent
       \/ CompleteFor(fs'[ConsPath], loc.parseResult)]_vars

\* an invocation that fails in the allocation after it has assigned a pin,
\* and leaves no file
C3_Witness ==
  /\ pc = "place_resume"
  /\ loc.genResult = None
  /\ loc.portConstraints # <<>>
  /\ ~Exists(ConsPath)

\* C4: when a file exists at the constraint path, generateBambuConstraintFile
\* returns that path after the existence test alone: it has not tested for,
\* read or parsed the hardware description, allocated no pin and written
\* nothing, so the file is unchanged, whatever has become of the top
\* function, the sources and the hardware description since the file was
\* written.
C4_SkipWhenExists ==
  [][(pc = "gen_exists" /\ Exists(ConsPath) /\ pc' # "gen_exists") =>
       /\ pc' = "place_resume"
       /\ loc'.genResult = ConsPath
       /\ fs' = fs
       /\ io' = <<"run:place", "exists:cons">>]_vars

\* the file written for _Z3fooi is returned after the top function has become
\* bar, every source has left the project and the hardware description is gone
C4_Witness ==
  /\ pc = "place_resume"
  /\ io = <<"run:place", "exists:cons">>
  /\ loc.genResult = ConsPath
  /\ fs[ConsPath].kind = "xml" /\ fs[ConsPath].design = "_Z3fooi"
  /\ project.settings.topFunction = "bar"
  /\ project.file_lists = <<>>
  /\ \A path \in HdlPaths : fs[path] = Absent

\* the argument that follows the first occurrence of flag
ArgAfter(args, flag) ==
  LET at == CHOOSE i \in 1..Len(args) :
              args[i] = flag /\ \A j \in 1..(i - 1) : args[j] # flag
  IN args[at + 1]

CountOf(args, x) == Cardinality({i \in 1..Len(args) : args[i] = x})

\* C5: when runBambuPlaceFlowCommand has returned: if the project lists a
\* constraint file, the result is a command with the first such file's path
\* after -c and generation was not invoked (no file-system call was made);
\* otherwise generation was invoked, and the result is a command with the
\* generated path after -c if generation gave a file, and no command if it
\* failed.
C5_ConstraintResolution ==
  (pc = "idle" /\ io # <<>> /\ io[1] = "run:place") =>
    LET listed == {k \in 1..Len(project.file_lists) :
                     project.file_lists[k].type = "constraint"}
    IN IF listed # {}
       THEN /\ io = <<"run:place">>
            /\ result.kind = "command"
            /\ ArgAfter(result.args, "-c") =
                 project.file_lists[CHOOSE k \in listed :
                                      \A j \in listed : k <= j].path
       ELSE /\ Len(io) >= 2 /\ io[2] = "exists:cons"
            /\ IF Exists(ConsPath)
               THEN /\ result.kind = "command"
                    /\ ArgAfter(result.args, "-c") = ConsPath
               ELSE result = Undefined

\* a placement without a listed constraint file whose generation failed in
\* the allocation: no command
C5_Witness ==
  /\ pc = "idle"
  /\ io # <<>> /\ io[1] = "run:place"
  /\ "alloc" \in Range(io)
  /\ result = Undefined

\* C9: the placement command holds -b once and no -t when place.mode is
\* "Bounding Box", and -t once and no -b for every other value; the routing
\* command holds exactly one of -d, -b, -t: -d for "Direct Search", -b for
\* "Breath First", -t for every other value.
C9_ModeFlags ==
  (pc = "idle" /\ result.kind = "command") =>
    /\ result.program = "binaries/fde-cli/place" =>
         LET bb == project.settings.placeMode = "Bounding Box"
         IN /\ CountOf(result.args, "-b") = IF bb THEN 1 ELSE 0
            /\ CountOf(result.args, "-t") = IF bb THEN 0 ELSE 1
    /\ result.program = "binaries/fde-cli/route" =>
         LET flag == CASE project.settings.routeMode = "Direct Search" -> "-d"
                       [] project.settings.routeMode = "Breath First" -> "-b"
                       [] OTHER -> "-t"
         IN \A f \in {"-d", "-b", "-t"} :
              CountOf(result.args, f) = IF f = flag THEN 1 ELSE 0

\* a placement command built while place.mode is unset
C9_Witness ==
  /\ pc = "idle"
  /\ result.kind = "command"
  /\ result.program = "binaries/fde-cli/place"
  /\ project.settings.placeMode = None
  /\ CountOf(result.args, "-t") = 1

IsCompilable(file) == file.type \in {"cpp", "c"}

\* C10: when runBambuHLSFlowCommand has returned, its result is a command
\* exactly when the project lists a C or C++ source file; the command's
\* arguments then end with the paths of all those files in project order.
C10_HLSNeedsSource ==
  (pc = "idle" /\ io = <<"run:hls">>) =>
    LET sources == SelectSeq(project.file_lists, IsCompilable)
        n == Len(sources)
    IN /\ result.kind = "command" <=> n > 0
       /\ n = 0 => result = Undefined
       /\ n > 0 =>
            /\ Len(result.args) >= n
            /\ \A k \in 1..n :
                 result.args[Len(result.args) - n + k] = sources[k].path

\* a command for a project that lists the C file before the C++ file
C10_Witness ==
  /\ pc = "idle"
  /\ io = <<"run:hls">>
  /\ project.file_lists = <<CFile, CppFile>>
  /\ result.kind = "command"


\* ---- C11: artifact naming chain

\* the stages in flow order and the program each one runs
Stages == <<"hls", "synth", "map", "pack", "place", "route", "genbit">>
StageOfProgram(program) ==
  CASE program = "binaries/bambu" -> 1
    [] program = "binaries/yosys" -> 2
    [] program = "binaries/fde-cli/map" -> 3
    [] program = "binaries/fde-cli/pack" -> 4
    [] program = "binaries/fde-cli/place" -> 5
    [] program = "binaries/fde-cli/route" -> 6
    [] program = "binaries/fde-cli/bitgen" -> 7

\* the first compilable source file of a project that has one
FirstCompilable(p) ==
  LET at == CHOOSE i \in 1..Len(p.file_lists) :
              /\ IsCompilable(p.file_lists[i])
              /\ \A j \in 1..(i - 1) : ~IsCompilable(p.file_lists[j])
  IN p.file_lists[at]

\* the artifact each stage leaves in the project directory, by the naming
\* rule: a function of the stage, the project name and the source base name
ArtifactOf(stage, p) ==
  CASE stage = "hls" -> Stem(FirstCompilable(p).name) \o ".v"
    [] stage = "synth" -> p.name \o "_bambu_syn.edf"
    [] stage = "map" -> p.name \o "_bambu_map.xml"
    [] stage = "pack" -> p.name \o "_bambu_pack.xml"
    [] stage = "place" -> p.name \o "_bambu_place.xml"
    [] stage = "route" -> p.name \o "_bambu_route.xml"
    [] stage = "genbit" -> p.name \o "_bambu_bit.bit"

\* everything of the yosys script line before the output name
YosysLineBeforeOutput ==
  "tcl $RES/resource/yosys/yosys_fde.tcl -l $RES/resource/yosys/fdesimlib.v"
    \o " -m $RES/resource/yosys/techmap.v -c $RES/resource/yosys/cells_map.v"
    \o " -o "

\* the input a command is given, as a name or as a path in its directory
ReadsArtifact(cmd, name) ==
  LET arg == CASE cmd.program = "binaries/yosys" -> cmd.args[3]
               [] cmd.program \in {"binaries/fde-cli/map",
                                   "binaries/fde-cli/place"} ->
                    ArgAfter(cmd.args, "-i")
               [] OTHER -> ArgAfter(cmd.args, "-n")
  IN arg = name \/ arg = cmd.cwd \o name

\* the output a command is told to write
WritesArtifact(cmd, name) ==
  CASE cmd.program = "binaries/yosys" ->
         cmd.args[2] = YosysLineBeforeOutput \o name
    [] cmd.program = "binaries/fde-cli/bitgen" ->
         ArgAfter(cmd.args, "-b") = name
    [] OTHER -> ArgAfter(cmd.args, "-o") = name

\* C11: the command of every stage after HLS reads the artifact of the stage
\* before it and writes its own artifact, the artifacts being <base>.v of the
\* first compilable source for HLS and <project>_bambu_<suffix> for the rest,
\* whatever the settings, the other files and the directory content
C11_ArtifactChain ==
  (pc = "idle" /\ result.kind = "command"
     /\ result.program # "binaries/bambu") =>
    LET k == StageOfProgram(result.program)
    IN /\ Stages[k] = (CASE io[1] = "run:synth" -> "synth"
                         [] io[1] = "run:map" -> "map"
                         [] io[1] = "run:pack" -> "pack"
                         [] io[1] = "run:place" -> "place"
                         [] io[1] = "run:route" -> "route"
                         [] io[1] = "run:genbit" -> "genbit"
                         [] OTHER -> "hls")
       /\ ReadsArtifact(result, ArtifactOf(Stages[k - 1], project))
       /\ WritesArtifact(result, ArtifactOf(Stages[k], project))

\* the packing command of the project named chip reads chip's mapping output
C11_Witness ==
  /\ pc = "idle"
  /\ io = <<"run:pack">>
  /\ project.name = "chip"
  /\ project.file_lists = <<PinsFile, CFile>>
  /\ result.kind = "command"
  /\ ArgAfter(result.args, "-n") = "chip_bambu_map.xml"


\* ---- C12: a failed placement blocks no later one

\* the project lists a manual constraint file
ListsConstraint ==
  \E i \in 1..Len(project.file_lists) : project.file_lists[i].type = "constraint"
FirstListedConstraint ==
  LET at == CHOOSE i \in 1..Len(project.file_lists) :
              /\ project.file_lists[i].type = "constraint"
              /\ \A j \in 1..(i - 1) : project.file_lists[j].type # "constraint"
  IN project.file_lists[at].path

\* every prerequisite of the generation is available: a compilable source is
\* listed, the Verilog named after the first one is readable, its first module
\* of mangled name containing the top function exists, and the pins suffice
Generatable ==
  /\ \E i \in 1..Len(project.file_lists) : IsCompilable(project.file_lists[i])
  /\ LET hdl == fs[ProjectDir \o ArtifactOf("hls", project)]
         target == IF project.settings.topFunction \in {None, ""}
                   THEN "main" ELSE project.settings.topFunction
     IN /\ hdl.kind = "hdl"
        /\ LET candidates == {k \in 1..Len(hdl.modules) :
                                /\ HasMangledForm(hdl.modules[k].name)
                                /\ ContainsIgnoreCase(hdl.modules[k].name, target)}
           IN /\ candidates # {}
              /\ LET first == CHOOSE k \in candidates :
                                \A j \in candidates : k <= j
                 IN ~Oversubscribed(DeclaredPorts(hdl.modules[first].body))

\* a step in which a placement invocation returns
PlaceReturns ==
  /\ pc' = "idle"
  /\ io' # <<>> /\ io'[1] = "run:place"
  /\ pc = "place_resume" \/ (pc = "idle" /\ io' = <<"run:place">>)
  /\ project' = project /\ fs' = fs

\* C12: whatever was invoked and failed before, a placement invocation returns
\* a command whenever the project lists a manual constraint file (passed with
\* -c), the generated file exists, or every prerequisite of the generation is
\* available; it returns no command otherwise, and then the generated
\* constraint file does not exist
C12_RetrySucceeds ==
  [][PlaceReturns =>
       IF ListsConstraint
       THEN /\ result'.kind = "command"
            /\ ArgAfter(result'.args, "-c") = FirstListedConstraint
       ELSE IF Exists(ConsPath) \/ Generatable
       THEN /\ result'.kind = "command"
            /\ ArgAfter(result'.args, "-c") = ConsPath
            /\ Exists(ConsPath)
       ELSE /\ result' = Undefined
            /\ ~Exists(ConsPath)]_vars

\* a placement has failed at the allocation and left no constraint file, and
\* the HLS tool has since written a design that fits: the next invocation is
\* the retry
C12_Witness ==
  /\ pc = "idle"
  /\ result = Undefined
  /\ io = <<"run:place", "exists:cons", "exists:hdl", "read:hdl", "parse", "alloc">>
  /\ ~Exists(ConsPath)
  /\ ~ListsConstraint
  /\ Generatable


\* ---- C13: order of the generation's steps

\* the calls a generation has made when it is about to write
CallsBeforeWrite ==
  <<"run:place", "exists:cons", "exists:hdl", "read:hdl", "parse", "alloc">>

\* the generation in flight gives up in this step: it returns failure having
\* neither allocated nor written
GenerationFails ==
  /\ pc' = "place_resume"
  /\ loc'.genResult = None
  /\ "alloc" \notin Range(io')
  /\ "write:cons" \notin Range(io')
  /\ fs' = fs

\* C13: the constraint file comes to exist or changes only in the write step
\* of a generation, after that invocation has, in this order, tested both
\* files, read the Verilog, parsed it to a module, and allocated a pin to
\* every instance of the module's ports; a generation step that finds no
\* compilable source, the Verilog absent, the Verilog unreadable, or no module
\* whose name contains the top function gives up without allocating or
\* writing, and the placement then returns no command
C13_WriteLast ==
  [][/\ (fs'[ConsPath] # fs[ConsPath] /\ fs'[ConsPath].kind # "absent") =>
          /\ pc = "gen_write"
          /\ io = CallsBeforeWrite
          /\ io' = Append(CallsBeforeWrite, "write:cons")
          /\ loc.parseResult.found
          /\ fs'[ConsPath].design = loc.parseResult.moduleName
          /\ Len(fs'[ConsPath].ports) = Len(Instances(loc.parseResult.ports))
     /\ (io' # io /\ pc = "gen_exists" /\ ~Exists(ConsPath)
           /\ \A i \in 1..Len(project.file_lists) :
                ~IsCompilable(project.file_lists[i])) => GenerationFails
     /\ (io' # io /\ pc = "gen_exists_hdl"
           /\ fs[loc.verilogPath] = Absent) => GenerationFails
     /\ (io' # io /\ pc = "gen_read"
           /\ fs[loc.verilogPath] \in {Absent, Unreadable}) => GenerationFails
     /\ (io' # io /\ pc = "gen_parse"
           /\ \A k \in 1..Len(loc.content) :
                ~ContainsIgnoreCase(loc.content[k].name, loc.topFunction))
          => GenerationFails
     /\ (pc = "place_resume" /\ pc' = "idle" /\ loc.genResult = None) =>
          /\ result' = Undefined
          /\ fs' = fs
          /\ "write:cons" \notin Range(io')]_vars

\* a generation has given up on reading a Verilog file that cannot be read
C13_Witness ==
  /\ pc = "place_resume"
  /\ loc.genResult = None
  /\ io = <<"run:place", "exists:cons", "exists:hdl", "read:hdl">>
  /\ fs[loc.verilogPath] = Unreadable
  /\ ~Exists(ConsPath)


\* ---- C14: routing only consumes the constraint file

\* the step in which a routing invocation starts, and the one in which an
\* invocation that found no manual constraint file returns
RouteStarts ==
  /\ pc = "idle"
  /\ io' = <<"run:route">>
  /\ io' # io \/ result' # result
RouteReturns == pc = "route_exists" /\ pc' = "idle"

\* C14: no step of a routing invocation changes the directory; an invocation
\* on a project that lists a manual constraint file returns at once a command
\* passing the first one with -c; any other returns a command passing the
\* generated path if the file exists at its test, and no command if not; and
\* the generated file comes to exist only in the write step of a placement
\* invocation, so that from an empty directory routing without a manual
\* constraint fails until a placement has generated the file
C14_RouteOnlyConsumes ==
  [][/\ RouteStarts =>
          /\ fs' = fs
          /\ IF ListsConstraint
             THEN /\ pc' = "idle"
                  /\ result'.kind = "command"
                  /\ result'.program = "binaries/fde-cli/route"
                  /\ ArgAfter(result'.args, "-c") = FirstListedConstraint
             ELSE result'.kind # "command"
     /\ RouteReturns =>
          /\ fs' = fs
          /\ IF Exists(ConsPath)
             THEN /\ result'.kind = "command"
                  /\ result'.program = "binaries/fde-cli/route"
                  /\ ArgAfter(result'.args, "-c") = ConsPath
             ELSE result' = Undefined
     /\ (~Exists(ConsPath) /\ fs'[ConsPath].kind # "absent") =>
          /\ io[1] = "run:place"
          /\ pc = "gen_write"]_vars

\* routing has returned a command on a project without a manual constraint
\* file, passing the file a placement generated for the module _Z3fooi
C14_Witness ==
  /\ pc = "idle"
  /\ io = <<"run:route", "exists:cons">>
  /\ ~ListsConstraint
  /\ result.kind = "command"
  /\ ArgAfter(result.args, "-c") = ConsPath
  /\ fs[ConsPath].kind = "xml"
  /\ fs[ConsPath].design = "_Z3fooi"

====
